---- MODULE Spec2Model ----
(***************************************************************************)
(* Model of GriefSupportBot (src/chatbot.py): the rule-based responder     *)
(* that classifies a message by regular expressions, resolves the          *)
(* category by priority and selects a reply while tracking the reply       *)
(* indexes already used per category.                                      *)
(*                                                                         *)
(* Strings are TLA+ strings.  The typographic apostrophes and dashes of    *)
(* the reply texts are written in ASCII; no pattern of the program         *)
(* mentions them.                                                          *)
(***************************************************************************)
EXTENDS Integers, Sequences, FiniteSets, TLC

VARIABLES deterministic, used_indexes, message, result, calls, history,
          pc, local, received

\* the state of the handlers of app.py that run at the same time
appvars == <<pc, local, received>>

vars == <<deterministic, used_indexes, message, result, calls, history,
          pc, local, received>>

(***************************************************************************)
(* Characters and the regular-expression engine (Python's re.search on     *)
(* the operators the program's patterns use).                              *)
(***************************************************************************)

\* str.lower() / re.IGNORECASE on ASCII letters
LowerOf ==
    [A |-> "a", B |-> "b", C |-> "c", D |-> "d", E |-> "e", F |-> "f",
     G |-> "g", H |-> "h", I |-> "i", J |-> "j", K |-> "k", L |-> "l",
     M |-> "m", N |-> "n", O |-> "o", P |-> "p", Q |-> "q", R |-> "r",
     S |-> "s", T |-> "t", U |-> "u", V |-> "v", W |-> "w", X |-> "x",
     Y |-> "y", Z |-> "z"]

LowerChar(ch) == IF ch \in DOMAIN LowerOf THEN LowerOf[ch] ELSE ch

RECURSIVE Lower(_)
Lower(s) ==
    IF Len(s) = 0 THEN ""
    ELSE LowerChar(SubSeq(s, 1, 1)) \o Lower(SubSeq(s, 2, Len(s)))

\* \s
WhiteSpace == {" ", "\t", "\n", "\r", "\f"}

\* \w (on lower-cased text)
WordChars ==
    {"a", "b", "c", "d", "e", "f", "g", "h", "i", "j", "k", "l", "m",
     "n", "o", "p", "q", "r", "s", "t", "u", "v", "w", "x", "y", "z",
     "0", "1", "2", "3", "4", "5", "6", "7", "8", "9", "_"}

CharAt(s, i) == SubSeq(s, i, i)

IsWordAt(s, i) == i >= 1 /\ i <= Len(s) /\ CharAt(s, i) \in WordChars

\* \b holds between positions i-1 and i
WordBoundary(s, i) == IsWordAt(s, i - 1) # IsWordAt(s, i)

\* str.strip()
RECURSIVE LStrip(_)
LStrip(s) ==
    IF Len(s) > 0 /\ CharAt(s, 1) \in WhiteSpace
    THEN LStrip(SubSeq(s, 2, Len(s)))
    ELSE s

RECURSIVE RStrip(_)
RStrip(s) ==
    IF Len(s) > 0 /\ CharAt(s, Len(s)) \in WhiteSpace
    THEN RStrip(SubSeq(s, 1, Len(s) - 1))
    ELSE s

Strip(s) == RStrip(LStrip(s))

\* Regular-expression syntax trees
Lit(str)  == [k |-> "lit", s |-> str, a |-> <<>>]
WB        == [k |-> "wb",  s |-> "",  a |-> <<>>]
Spaces    == [k |-> "ws+", s |-> "",  a |-> <<>>]
DashOrWs  == [k |-> "-ws", s |-> "",  a |-> <<>>]
Cat(seq)  == [k |-> "seq", s |-> "",  a |-> seq]
Alt(seq)  == [k |-> "alt", s |-> "",  a |-> seq]
Opt(node) == [k |-> "opt", s |-> "",  a |-> <<node>>]
\* \b(w1|w2|...)\b
Words(seq) == Cat(<<WB, Alt(seq), WB>>)

\* Ends(node, s, i): the positions at which a match of node that starts at
\* position i of s can end (every way of matching, as backtracking finds).
RECURSIVE Ends(_, _, _)
RECURSIVE SeqEnds(_, _, _, _)
SeqEnds(nodes, n, s, starts) ==
    IF n > Len(nodes) \/ starts = {} THEN starts
    ELSE SeqEnds(nodes, n + 1, s, UNION {Ends(nodes[n], s, i) : i \in starts})

Ends(node, s, i) ==
    CASE node.k = "lit" ->
           IF i + Len(node.s) - 1 <= Len(s)
              /\ SubSeq(s, i, i + Len(node.s) - 1) = node.s
           THEN {i + Len(node.s)} ELSE {}
      [] node.k = "wb"  -> IF WordBoundary(s, i) THEN {i} ELSE {}
      [] node.k = "ws+" ->
           {j \in (i + 1)..(Len(s) + 1) :
               \A p \in i..(j - 1) : CharAt(s, p) \in WhiteSpace}
      [] node.k = "-ws" ->
           IF i <= Len(s) /\ CharAt(s, i) \in WhiteSpace \cup {"-"}
           THEN {i + 1} ELSE {}
      [] node.k = "seq" -> SeqEnds(node.a, 1, s, {i})
      [] node.k = "alt" ->
           UNION {Ends(node.a[n], s, i) : n \in 1..Len(node.a)}
      [] node.k = "opt" -> {i} \cup Ends(node.a[1], s, i)

\* re.compile(p, re.IGNORECASE).search(text) is not None
Search(node, text) ==
    LET s == Lower(text)
    IN \E i \in 1..(Len(s) + 1) : Ends(node, s, i) # {}

(***************************************************************************)
(* The tables built by GriefSupportBot.__init__                            *)
(***************************************************************************)

\* self.responses
responses ==
    [greeting |-> <<
        "Hello-I'm here with you. How are you feeling right now?",
        "Welcome. This is a safe space to share what's on your heart. How are you doing today?",
        "Hi. I'm here to listen. What feels heaviest at the moment?">>,
     feeling_bad |-> <<
        "I'm hearing a lot of pain. Grief can feel like it takes over everything. What's been most intense today?",
        "That sounds really hard. Your feelings make sense after a loss. Do you want to say more about what's coming up?",
        "It's okay to not be okay. If you can, tell me what's underneath the sadness right now.">>,
     feeling_better |-> <<
        "I'm glad there's a bit of ease. Grief comes in waves; it's okay to let this calmer moment be real.",
        "Good to hear. Relief and sadness can coexist-both are valid. What helped a little today?",
        "Noticing a better moment matters. What seems to support you when it shows up?">>,
     memories |-> <<
        "Thank you for sharing that. What's a memory that feels especially alive right now?",
        "Holding onto their stories can be grounding. What was one of their quirks you loved?",
        "I'm honored you shared that. What qualities of theirs do you carry with you?">>,
     sleep_issues |-> <<
        "Sleep can get disrupted by grief. Would a simple wind-down-dim lights, light reading, slow breaths-be worth trying tonight?",
        "Not sleeping makes everything harder. Some people jot down looping thoughts before bed-could that help you?",
        "If this keeps up, talking with a clinician might help. For now, even a brief rest routine can be gentler on your system.">>,
     anniversary |-> <<
        "Dates can reopen the ache. Would a small ritual-lighting a candle, visiting a place, sharing a story-feel supportive?",
        "Milestones are tender. Creating a new tradition to honor them can help hold the day.",
        "It's natural for emotions to rise around anniversaries. Is there someone you'd want beside you that day?">>,
     guilt |-> <<
        "Guilt shows up for many people after a loss. Relationships are imperfect; love isn't measured by flawless choices.",
        "You sound very hard on yourself. If a friend said this to you, what compassion would you offer them?",
        "'If only' thoughts are common and painful. We can explore them gently if you'd like.">>,
     anger |-> <<
        "Anger is a valid part of grief. It can point to what mattered deeply. How does it show up in your body?",
        "Your anger makes sense. Is there a safe way to let it move-writing, movement, or hitting a pillow?",
        "Many feel uneasy with anger, but it's normal after loss. We can sit with it here.">>,
     self_care |-> <<
        "Small, doable care counts. A glass of water, a short walk, or stepping outside can be enough for now.",
        "What's one tiny act of care you could manage in the next hour?",
        "Self-care in grief can be permission to feel, rest, and do less. What might that look like today?">>,
     support |-> <<
        "Having company helps. Who in your world can simply listen without fixing?",
        "It's okay to ask for specific help. What would be most useful-meals, child care, a check-in call?",
        "Peer groups can help you feel less alone. Would you like ideas on how to find one?">>,
     professional_help |-> <<
        "A grief-informed therapist can offer steadiness and tools. Want a few ways to search?",
        "Professional support can widen your coping options-telehealth is common if that's easier.",
        "If you're open to it, we can outline what a first session might look like.">>,
     default |-> <<
        "Thank you for sharing. What feels most challenging right now?",
        "I'm here. Would you like to tell me a bit more about what you're experiencing?",
        "Grief is complex. Where does it tend to hit the hardest for you?">>,
     crisis |-> <<
        "I'm really glad you told me. You deserve immediate support. If you're in danger or thinking of harming yourself, please call local emergency services now. If you're in the U.S. or Canada, you can dial 988 for the Suicide & Crisis Lifeline. If possible, reach out to someone you trust to stay with you. I'll stay with you here, too. Can you tell me where you are and if you're safe right now?">>]

\* self.followups
followups ==
    [feeling_bad |-> <<"When did you first notice today's dip?",
                       "Where do you feel it in your body?">>,
     memories |-> <<"Would you like to share a photo or another story sometime?",
                    "How do you like to honor them day-to-day?">>,
     guilt |-> <<"What part of this guilt feels the loudest?",
                 "If you rewind that moment, what need were you trying to meet?">>,
     anger |-> <<"Is there a safe outlet that has helped before?",
                 "What does the anger want you to protect?">>,
     self_care |-> <<"What's one tiny step you could take in the next ten minutes?",
                     "Who could text you a check-in later today?">>]

\* self.patterns
patterns ==
    [greeting |-> Words(<<Lit("hello"), Lit("hi"), Lit("hey"), Lit("greetings")>>),
     feeling_bad |-> Words(<<Lit("sad"), Lit("depressed"), Lit("overwhelmed"),
                             Lit("exhausted"), Lit("tired"), Lit("down"),
                             Lit("lonely"), Lit("alone"), Lit("lost"),
                             Cat(<<Lit("cry"), Opt(Lit("ing"))>>), Lit("tears"),
                             Lit("difficult"), Lit("hard")>>),
     feeling_better |-> Words(<<Lit("better"), Lit("good"), Lit("okay"), Lit("ok"),
                                Lit("fine"), Lit("alright"), Lit("improving"),
                                Lit("hopeful"), Lit("positive")>>),
     memories |-> Alt(<<Cat(<<WB, Lit("memory"), WB>>),
                        Cat(<<WB, Lit("memories"), WB>>),
                        Cat(<<WB, Lit("remember"), Opt(Lit("ed")), WB>>),
                        Cat(<<WB, Lit("miss"), Opt(Lit("ing")), WB>>),
                        Cat(<<Lit("loved"), Spaces, Lit("one")>>)>>),
     sleep_issues |-> Words(<<Lit("sleep"), Lit("insomnia"),
                              Cat(<<Lit("nightmare"), Opt(Lit("s"))>>),
                              Cat(<<Lit("dream"), Opt(Lit("s"))>>),
                              Lit("awake"), Lit("bed")>>),
     anniversary |-> Words(<<Lit("anniversary"), Lit("birthday"), Lit("holiday"),
                             Lit("christmas"), Lit("thanksgiving"),
                             Cat(<<Lit("special"), Spaces, Lit("day")>>),
                             Cat(<<Lit("year"), Spaces, Lit("since")>>),
                             Cat(<<Lit("month"), Spaces, Lit("since")>>)>>),
     guilt |-> Alt(<<Cat(<<WB, Lit("guilt"), Opt(Lit("y")), WB>>),
                     Cat(<<WB, Lit("blame"), Opt(Lit("d")), WB>>),
                     Cat(<<WB, Lit("fault"), WB>>),
                     Cat(<<WB, Lit("regret"), WB>>),
                     Cat(<<Lit("should"), Opt(Cat(<<Spaces, Lit("have")>>))>>),
                     Cat(<<Lit("could"), Opt(Cat(<<Spaces, Lit("have")>>))>>),
                     Cat(<<Lit("would"), Opt(Cat(<<Spaces, Lit("have")>>))>>),
                     Cat(<<WB, Lit("if only"), WB>>),
                     Cat(<<WB, Lit("sorry"), WB>>)>>),
     anger |-> Words(<<Lit("angry"), Lit("anger"), Lit("mad"), Lit("unfair"),
                       Lit("cruel"), Lit("hate"),
                       Cat(<<Lit("resent"), Opt(Lit("ment"))>>)>>),
     self_care |-> Alt(<<Cat(<<Lit("self"), Opt(DashOrWs), Lit("care")>>),
                         Cat(<<Lit("take"), Spaces, Lit("care")>>),
                         Cat(<<Lit("help"), Spaces, Lit("myself")>>),
                         Words(<<Lit("shower"), Lit("eat"), Lit("eating"),
                                 Lit("food"), Lit("exercise"), Lit("walk")>>)>>),
     support |-> Words(<<Lit("support"), Cat(<<Lit("friend"), Opt(Lit("s"))>>),
                         Lit("family"), Lit("help"),
                         Cat(<<Lit("talk"), Opt(Lit("ing"))>>),
                         Cat(<<Lit("listen"), Opt(Lit("ing"))>>)>>),
     professional_help |-> Words(<<Lit("therapy"), Lit("therapist"),
                                   Cat(<<Lit("counsel"), Opt(Lit("l")), Lit("ing")>>),
                                   Cat(<<Lit("counsel"), Opt(Lit("l")), Lit("or")>>),
                                   Lit("professional"), Lit("doctor"),
                                   Lit("psychologist"), Lit("psychiatrist")>>)]

\* self.crisis_pattern
crisis_pattern ==
    Alt(<<Cat(<<Lit("suicid"), Alt(<<Lit("e"), Lit("al")>>)>>),
          Lit("kill myself"), Lit("end my life"),
          Cat(<<Lit("can"), Opt(Lit("'")), Lit("t go on")>>),
          Cat(<<Lit("don"), Opt(Lit("'")), Lit("t want to live")>>),
          Cat(<<Lit("self"), Opt(DashOrWs), Lit("harm")>>),
          Lit("hurt myself"), Lit("take my life")>>)

\* self.priorities
priorities ==
    <<"crisis", "anniversary", "sleep_issues", "feeling_bad", "guilt", "anger",
      "memories", "self_care", "support", "professional_help", "feeling_better",
      "greeting", "default">>

Categories == {priorities[n] : n \in 1..Len(priorities)}

\* the pattern of _explicit_help_request
help_pattern ==
    Words(<<Lit("suggest"), Lit("recommendation"), Lit("advice"), Lit("tip"),
            Lit("help"), Lit("idea"),
            Cat(<<Lit("what"), Spaces, Alt(<<Lit("can"), Lit("should")>>),
                  Spaces, Lit("i"), Spaces, Lit("do")>>)>>)

\* the cue groups of _get_self_care_suggestion, in the order they are tested
self_care_cues ==
    <<[tag |-> "physical",
       pat |-> Words(<<Lit("tired"), Lit("sleep"), Lit("eat"), Lit("food"),
                       Lit("body"), Lit("physical"), Lit("exercise"),
                       Lit("walk"), Lit("shower")>>)],
      [tag |-> "social",
       pat |-> Words(<<Lit("people"), Lit("talk"), Lit("friend"), Lit("family"),
                       Lit("social"), Lit("alone"), Lit("lonely"),
                       Lit("connection")>>)],
      [tag |-> "spiritual",
       pat |-> Words(<<Lit("meaning"), Lit("purpose"), Lit("spiritual"),
                       Lit("faith"), Lit("belief"), Lit("meditation"),
                       Lit("nature"), Lit("soul")>>)],
      [tag |-> "practical",
       pat |-> Words(<<Lit("tasks"), Lit("work"), Lit("chores"),
                       Lit("overwhelmed"), Lit("organize"), Lit("decision"),
                       Lit("decide")>>)]>>

\* _self_care_recs
self_care_recs ==
    [physical |-> <<
        "Try a two-minute body scan and slow breathing; even brief regulation helps your nervous system.",
        "A short walk or gentle stretch can release some of the tension grief holds.",
        "Hydrate and eat something simple; basics matter when energy is low.",
        "If you can, set a small wind-down routine tonight (lights down, no phone, one calming page).">>,
     emotional |-> <<
        "Let feelings move without judging them-naming them softly can reduce their intensity.",
        "A few lines of journaling about 'what hurts most' can bring relief.",
        "It's okay to feel moments of ease; they don't erase your love.">>,
     social |-> <<
        "Text one trusted person: 'Could you check in on me later? I'm having a rough day.'",
        "Ask for one concrete thing (a call, a walk, a meal) instead of 'anything.'">>,
     spiritual |-> <<
        "If it helps, light a candle or sit in nature for five minutes and breathe with what's here.",
        "A brief mindfulness practice-counting five things you can see/hear/feel-can ground you.">>,
     practical |-> <<
        "Break today into the next tiny step; set a 10-minute timer and stop when it dings.",
        "Defer big decisions; grief narrows focus-give yourself time.">>]

\* the reply of get_response to an empty message
InvitationReply == "I'm here. Say anything that feels manageable to share."

(***************************************************************************)
(* The internals of GriefSupportBot                                        *)
(***************************************************************************)

\* _match_categories
match_categories(text) ==
    {cat \in DOMAIN patterns : Search(patterns[cat], text)}

\* Mutant of pick_by_priority: the walk starts at the low end of the order
RECURSIVE pick_from_last(_, _)
pick_from_last(n, hits) ==
    IF n < 1 THEN "default"
    ELSE IF priorities[n] \in hits THEN priorities[n]
    ELSE pick_from_last(n - 1, hits)

pick_lowest_priority(hits) == pick_from_last(Len(priorities), hits)

\* _pick_by_priority
RECURSIVE pick_from(_, _)
pick_from(n, hits) ==
    IF n > Len(priorities) THEN "default"
    ELSE IF priorities[n] \in hits THEN priorities[n]
    ELSE pick_from(n + 1, hits)

pick_by_priority(hits) == pick_from(1, hits)

\* _explicit_help_request
explicit_help_request(text) == Search(help_pattern, text)

\* the if/elif chain of _get_self_care_suggestion
RECURSIVE cue_from(_, _)
cue_from(n, text) ==
    IF n > Len(self_care_cues) THEN "emotional"
    ELSE IF Search(self_care_cues[n].pat, text) THEN self_care_cues[n].tag
    ELSE cue_from(n + 1, text)

\* Mutant of self_care_tag: the last matching cue group wins
RECURSIVE cue_from_last(_, _)
cue_from_last(n, text) ==
    IF n < 1 THEN "emotional"
    ELSE IF Search(self_care_cues[n].pat, text) THEN self_care_cues[n].tag
    ELSE cue_from_last(n - 1, text)

self_care_tag_last(text) == cue_from_last(Len(self_care_cues), text)

self_care_tag(text) == cue_from(1, text)

\* sorted(hits): Python orders str by code point
CodeOrder == "_abcdefghijklmnopqrstuvwxyz"

Ord(ch) == CHOOSE n \in 1..Len(CodeOrder) : CharAt(CodeOrder, n) = ch

RECURSIVE StrLess(_, _)
StrLess(x, y) ==
    IF Len(y) = 0 THEN FALSE
    ELSE IF Len(x) = 0 THEN TRUE
    ELSE IF CharAt(x, 1) = CharAt(y, 1)
         THEN StrLess(SubSeq(x, 2, Len(x)), SubSeq(y, 2, Len(y)))
         ELSE Ord(CharAt(x, 1)) < Ord(CharAt(y, 1))

\* Mutant of sorted: the hits are listed in priority order
RECURSIVE in_priority_order(_, _)
in_priority_order(n, set) ==
    IF n > Len(priorities) THEN <<>>
    ELSE (IF priorities[n] \in set THEN <<priorities[n]>> ELSE <<>>)
         \o in_priority_order(n + 1, set)

sorted_by_priority(set) == in_priority_order(1, set)

RECURSIVE sorted(_)
sorted(set) ==
    IF set = {} THEN <<>>
    ELSE LET least == CHOOSE x \in set : \A y \in set \ {x} : StrLess(x, y)
         IN <<least>> \o sorted(set \ {least})

\* ",".join(seq)
RECURSIVE join(_)
join(seq) ==
    IF Len(seq) = 0 THEN ""
    ELSE IF Len(seq) = 1 THEN seq[1]
    ELSE seq[1] \o "," \o join(Tail(seq))

\* _pack
pack(category, text, matched) ==
    [text |-> text, category |-> category, matched_terms |-> matched]

\* self._used_indexes.setdefault(category, set()), read
used_of(category) ==
    IF category \in DOMAIN used_indexes THEN used_indexes[category] ELSE {}

\* Mutant of choose_candidates: the used set is never cleared
choose_candidates_no_reset(category) ==
    LET bank == responses[category]
        used == used_of(category)
    IN [choices |-> {i \in 0..(Len(bank) - 1) : i \notin used}, used |-> used]

\* Mutant of choose_candidates: the used indexes are not left out
choose_candidates_all(category) ==
    LET bank == responses[category]
        used == used_of(category)
    IN IF used = 0..(Len(bank) - 1)
       THEN [choices |-> 0..(Len(bank) - 1), used |-> {}]
       ELSE [choices |-> 0..(Len(bank) - 1), used |-> used]

\* Mutant of choose_candidates: the used set is cleared one pick early
choose_candidates_early_reset(category) ==
    LET bank == responses[category]
        used == used_of(category)
        choices == {i \in 0..(Len(bank) - 1) : i \notin used}
    IN IF Cardinality(choices) <= 1
       THEN [choices |-> 0..(Len(bank) - 1), used |-> {}]
       ELSE [choices |-> choices, used |-> used]

\* the candidate indexes of _choose after its reset: [choices, used before add]
choose_candidates(category) ==
    LET bank == responses[category]
        used == used_of(category)
        choices == {i \in 0..(Len(bank) - 1) : i \notin used}
    IN IF choices = {}
       THEN [choices |-> 0..(Len(bank) - 1), used |-> {}]
       ELSE [choices |-> choices, used |-> used]

\* Mutant of pick_index: choices[-1] in deterministic mode
pick_index_last(choices) ==
    IF deterministic
    THEN {CHOOSE i \in choices : \A j \in choices : i >= j}
    ELSE choices

\* choices[0] if deterministic else random.choice(choices)
pick_index(choices) ==
    IF deterministic
    THEN {CHOOSE i \in choices : \A j \in choices : i <= j}
    ELSE choices

\* _choose: every (index returned, set of used indexes left behind);
\* choices[0] and random.choice(choices) raise IndexError on an empty list,
\* written idx = -1
choose(category) ==
    LET c == choose_candidates(category)
    IN IF c.choices = {}
       THEN {[idx |-> -1, used |-> c.used]}
       ELSE {[idx |-> i, used |-> c.used \cup {i}] : i \in pick_index(c.choices)}

\* Mutant of choose_followup: the follow-ups alternate with the main replies
\* used so far, as a usage-tracking selection would make them
choose_followup_tracked(category) ==
    IF category \notin DOMAIN followups \/ Len(followups[category]) = 0
    THEN {-1}
    ELSE {Cardinality(used_of(category)) % Len(followups[category])}

\* _choose_followup: the indexes it may return, -1 standing for ""
choose_followup(category) ==
    IF category \notin DOMAIN followups \/ Len(followups[category]) = 0
    THEN {-1}
    ELSE IF deterministic THEN {0}
    ELSE 0..(Len(followups[category]) - 1)

followup_text(category, fu) ==
    IF fu = -1 THEN "" ELSE followups[category][fu + 1]

\* reply = f"{base} {fu}" if fu else base
reply_text(base, fu) == IF fu # "" THEN base \o " " \o fu ELSE base

SuggestionHead == "It sounds like you could use support. "
SuggestionTail == " Would you like another suggestion?"

\* _get_self_care_suggestion, after its if/elif chain chose the tag: every
\* string it may return
suggestions(tag) ==
    LET recs == self_care_recs[tag]
        picks == IF deterministic THEN {1} ELSE 1..Len(recs)
    IN {SuggestionHead \o recs[n] \o SuggestionTail : n \in picks}

(***************************************************************************)
(* Messages                                                                *)
(***************************************************************************)

Fragments ==
    {"Hi", "tired", "our anniversary", "can't sleep", "feel better",
     "I miss him", "shoulder", "so angry", "self-care", "my friend",
     "a therapist", "kill myself", "any tip", "help", "this weather",
     "sad", " \t"}

\* the messages of the manual test of chatbot.py
ManualTests ==
    {"hi",
     "I feel exhausted and can't sleep",
     "today is his birthday and I miss him",
     "I feel so guilty, I should have done more",
     "Honestly, I don't want to live like this",
     "any tip to help right now?"}

Examples ==
    {"I feel sad about our anniversary", "I Can't Go On",
     "what should I do about the anniversary", "I am tired, my friend, any advice",
     "any advice on faith", "an idea for my chores"}

Messages ==
    {""} \cup Fragments \cup ManualTests \cup Examples
    \cup {x \o " " \o y : x \in Fragments, y \in Fragments}

MaxCalls == 2

MaxSessionCalls == 5

\* what the regular expressions of get_response find in a message
scan(msg) ==
    LET text == Strip(msg)
    IN [text   |-> text,
        crisis |-> Search(crisis_pattern, text),
        hits   |-> match_categories(text),
        help   |-> explicit_help_request(text),
        tag    |-> self_care_tag(text)]

\* scan, computed once per message
Scanned == [msg \in Messages |-> scan(msg)]

(***************************************************************************)
(* The state machine                                                       *)
(***************************************************************************)

NoResult == pack("", "", "")

\* the two entry points of app.py that call grief_bot.get_response, each
\* serving the chat session of one user
Clients == {"api_chat", "handle_user_message"}

\* the locals of a get_response that has not started
NoLocals == [msg |-> "", category |-> "", choices |-> {}, idx |-> -1]

\* GriefSupportBot(BotConfig(deterministic=...)), no call made yet
Init ==
    /\ deterministic \in BOOLEAN
    /\ used_indexes = <<>>
    /\ message = ""
    /\ result = NoResult
    /\ calls = 0
    /\ history = [cat \in Categories |-> <<>>]
    /\ pc = [c \in Clients |-> "idle"]
    /\ local = [c \in Clients |-> NoLocals]
    /\ received = [c \in Clients |-> [cat \in Categories |-> <<>>]]

\* used.add(idx) on the entry of category
mark_used(category, used) ==
    [cat \in DOMAIN used_indexes \cup {category} |->
        IF cat = category THEN used ELSE used_indexes[cat]]

\* Mutant of branch: the advice request is tested before the crisis pattern
branch_help_first(s) ==
    IF s.text = "" THEN "empty"
    ELSE IF s.help THEN "advice"
    ELSE IF s.crisis THEN "crisis"
    ELSE "reply"

\* Mutant of branch: no test for the empty text
branch_no_empty_check(s) ==
    IF s.crisis THEN "crisis"
    ELSE IF s.help THEN "advice"
    ELSE "reply"

\* Mutant of branch: the advice request counts only when no category was hit
branch_help_without_hits(s) ==
    IF s.text = "" THEN "empty"
    ELSE IF s.crisis THEN "crisis"
    ELSE IF s.help /\ s.hits = {} THEN "advice"
    ELSE "reply"

\* the if chain of get_response: which return statement a message reaches
branch(s) ==
    IF s.text = "" THEN "empty"
    ELSE IF s.crisis THEN "crisis"
    ELSE IF s.help THEN "advice"
    ELSE "reply"

\* Mutant of resolve: the categories of earlier calls are still counted as hits
resolve_remembering(hits) ==
    LET all == hits \cup (DOMAIN used_indexes \ {"crisis", "default"})
    IN IF all # {} THEN pick_by_priority(all) ELSE "default"

\* category = self._pick_by_priority(hits) if hits else "default"
resolve(hits) == IF hits # {} THEN pick_by_priority(hits) ELSE "default"

\* an IndexError leaves get_response: no Result
Raised == pack("IndexError", "", "")

\* Mutant of get_response: the main reply is chosen before the advice test,
\* so an advice call consumes an index of the resolved category
get_response_consuming(msg) ==
    LET s == Scanned[msg]
        category == resolve(s.hits)
        case == branch(s)
    IN /\ message' = msg
       /\ calls' = calls + 1
       /\ deterministic' = deterministic
       /\ CASE case = "empty" ->
                 /\ result' = pack("default", InvitationReply, "")
                 /\ UNCHANGED <<used_indexes, history>>
            [] case = "crisis" ->
                 \E c \in choose("crisis") :
                    IF c.idx = -1
                    THEN result' = Raised /\ UNCHANGED <<used_indexes, history>>
                    ELSE /\ result' = pack("crisis", responses["crisis"][c.idx + 1],
                                           "crisis")
                         /\ used_indexes' = mark_used("crisis", c.used)
                         /\ history' = [history EXCEPT !["crisis"] =
                                           Append(@, [idx |-> c.idx, fu |-> -1])]
            [] case = "advice" ->
                 \E suggestion \in suggestions(s.tag), c \in choose(category) :
                    /\ result' = pack("self_care", suggestion, "self_care(help)")
                    /\ used_indexes' = mark_used(category, c.used)
                    /\ UNCHANGED history
            [] case = "reply" ->
                 \E c \in choose(category), fu \in choose_followup(category) :
                    IF c.idx = -1
                    THEN result' = Raised /\ UNCHANGED <<used_indexes, history>>
                    ELSE /\ result' =
                              pack(category,
                                   reply_text(responses[category][c.idx + 1],
                                              followup_text(category, fu)),
                                   IF s.hits # {} THEN join(sorted(s.hits)) ELSE "")
                         /\ used_indexes' = mark_used(category, c.used)
                         /\ history' = [history EXCEPT ![category] =
                                           Append(@, [idx |-> c.idx, fu |-> fu])]

\* get_response(msg)
get_response(msg) ==
    LET s == Scanned[msg]
        category == resolve(s.hits)
        case == branch(s)
    IN /\ message' = msg
       /\ calls' = calls + 1
       /\ deterministic' = deterministic
       /\ CASE case = "empty" ->
                 /\ result' = pack("default", InvitationReply, "")
                 /\ UNCHANGED <<used_indexes, history>>
            [] case = "crisis" ->
                 \E c \in choose("crisis") :
                    IF c.idx = -1
                    THEN result' = Raised /\ UNCHANGED <<used_indexes, history>>
                    ELSE /\ result' = pack("crisis", responses["crisis"][c.idx + 1],
                                           "crisis")
                         /\ used_indexes' = mark_used("crisis", c.used)
                         /\ history' = [history EXCEPT !["crisis"] =
                                           Append(@, [idx |-> c.idx, fu |-> -1])]
            [] case = "advice" ->
                 \E suggestion \in suggestions(s.tag) :
                    /\ result' = pack("self_care", suggestion, "self_care(help)")
                    /\ UNCHANGED <<used_indexes, history>>
            [] case = "reply" ->
                 \E c \in choose(category), fu \in choose_followup(category) :
                    IF c.idx = -1
                    THEN result' = Raised /\ UNCHANGED <<used_indexes, history>>
                    ELSE /\ result' =
                              pack(category,
                                   reply_text(responses[category][c.idx + 1],
                                              followup_text(category, fu)),
                                   IF s.hits # {} THEN join(sorted(s.hits)) ELSE "")
                         /\ used_indexes' = mark_used(category, c.used)
                         /\ history' = [history EXCEPT ![category] =
                                           Append(@, [idx |-> c.idx, fu |-> fu])]

\* the caller has taken the Result (api_chat returns jsonify(resp),
\* handle_user_message emits it): nothing of the call is left but the
\* bot's own state
deliver ==
    /\ result # NoResult
    /\ message' = ""
    /\ result' = NoResult
    /\ UNCHANGED <<deterministic, used_indexes, calls, history>>

\* calls are made one after the other, each with any message
Next ==
    \/ \E msg \in Messages :
          calls < MaxCalls /\ result = NoResult /\ get_response(msg)
          /\ UNCHANGED appvars
    \/ deliver /\ UNCHANGED appvars

Spec == Init /\ [][Next]_vars

\* one longer conversation, made of the messages of the manual test
NextSession ==
    \/ \E msg \in ManualTests :
          calls < MaxSessionCalls /\ result = NoResult /\ get_response(msg)
          /\ UNCHANGED appvars
    \/ deliver /\ UNCHANGED appvars

SpecSession == Init /\ [][NextSession]_vars


(***************************************************************************)
(* app.py: the module-level grief_bot is called by api_chat and by         *)
(* handle_user_message, which the server may run at the same time.  Each   *)
(* statement of _choose is one step; nothing in chatbot.py or app.py       *)
(* holds a lock.                                                           *)
(***************************************************************************)

MaxAppCalls == 4

\* the messages the two users send (both handlers drop an empty message)
AppMessages == {msg \in ManualTests : Strip(msg) # ""}

sequential == <<message, result, history>>

\* resp = grief_bot.get_response(msg), up to the call of _choose; an advice
\* reply is built without _choose and goes back at once
app_call(c, msg) ==
    LET s == Scanned[msg]
        case == branch(s)
    IN /\ pc[c] = "idle"
       /\ calls < MaxAppCalls
       /\ calls' = calls + 1
       /\ IF case = "advice"
          THEN UNCHANGED <<pc, local>>
          ELSE /\ local' = [local EXCEPT ![c] =
                               [msg |-> msg,
                                category |-> IF case = "crisis" THEN "crisis"
                                             ELSE resolve(s.hits),
                                choices |-> {},
                                idx |-> -1]]
               /\ pc' = [pc EXCEPT ![c] = "setdefault"]
       /\ UNCHANGED <<deterministic, used_indexes, received, sequential>>

\* used = self._used_indexes.setdefault(category, set())
app_setdefault(c) ==
    /\ pc[c] = "setdefault"
    /\ used_indexes' = mark_used(local[c].category, used_of(local[c].category))
    /\ pc' = [pc EXCEPT ![c] = "choices"]
    /\ UNCHANGED <<deterministic, calls, local, received, sequential>>

\* choices = [i for i in range(len(bank)) if i not in used]
app_choices(c) ==
    /\ pc[c] = "choices"
    /\ local' = [local EXCEPT ![c].choices =
                    {i \in 0..(Len(responses[local[c].category]) - 1) :
                        i \notin used_of(local[c].category)}]
    /\ pc' = [pc EXCEPT ![c] = "reset"]
    /\ UNCHANGED <<deterministic, calls, used_indexes, received, sequential>>

\* if not choices: used.clear(); choices = list(range(len(bank)))
app_reset(c) ==
    /\ pc[c] = "reset"
    /\ IF local[c].choices = {}
       THEN /\ used_indexes' = mark_used(local[c].category, {})
            /\ local' = [local EXCEPT ![c].choices =
                            0..(Len(responses[local[c].category]) - 1)]
       ELSE UNCHANGED <<used_indexes, local>>
    /\ pc' = [pc EXCEPT ![c] = "pick"]
    /\ UNCHANGED <<deterministic, calls, received, sequential>>

\* idx = choices[0] if self.cfg.deterministic else random.choice(choices)
app_pick(c) ==
    /\ pc[c] = "pick"
    /\ \E i \in pick_index(local[c].choices) :
          local' = [local EXCEPT ![c].idx = i]
    /\ pc' = [pc EXCEPT ![c] = "add"]
    /\ UNCHANGED <<deterministic, calls, used_indexes, received, sequential>>

\* used.add(idx)
app_add(c) ==
    /\ pc[c] = "add"
    /\ used_indexes' = mark_used(local[c].category,
                                 used_of(local[c].category) \cup {local[c].idx})
    /\ pc' = [pc EXCEPT ![c] = "return"]
    /\ UNCHANGED <<deterministic, calls, local, received, sequential>>

\* return bank[idx], and the handler sends the reply to its user
app_return(c) ==
    /\ pc[c] = "return"
    /\ received' = [received EXCEPT ![c][local[c].category] =
                       Append(@, local[c].idx)]
    /\ local' = [local EXCEPT ![c] = NoLocals]
    /\ pc' = [pc EXCEPT ![c] = "idle"]
    /\ UNCHANGED <<deterministic, calls, used_indexes, sequential>>

\* grief_bot = GriefSupportBot(BotConfig(deterministic=False))
InitApp == Init /\ deterministic = FALSE

NextApp ==
    \E c \in Clients :
        \/ \E msg \in AppMessages : app_call(c, msg)
        \/ app_setdefault(c)
        \/ app_choices(c)
        \/ app_reset(c)
        \/ app_pick(c)
        \/ app_add(c)
        \/ app_return(c)

SpecApp == InitApp /\ [][NextApp]_vars

(***************************************************************************)
(* Properties                                                              *)
(***************************************************************************)

\* get_response has returned and its Result is not yet delivered
InCall == result # NoResult

\* what the patterns find in the message of the call
Facts == Scanned[message]

\* the message reaches the reply bank: not empty, no crisis, no advice request
PlainInput == Facts.text # "" /\ ~Facts.crisis /\ ~Facts.help

\* position of a category in the priority order
Rank(cat) == CHOOSE n \in 1..Len(priorities) : priorities[n] = cat

\* str.split(",") of a matched_terms string ("" gives no term)
RECURSIVE SplitFrom(_, _, _)
SplitFrom(str, n, term) ==
    IF n > Len(str) THEN <<term>>
    ELSE IF CharAt(str, n) = ","
         THEN <<term>> \o SplitFrom(str, n + 1, "")
         ELSE SplitFrom(str, n + 1, term \o CharAt(str, n))

Terms(str) == IF str = "" THEN <<>> ELSE SplitFrom(str, 1, "")

\* the main-reply indexes and the follow-up indexes returned for a category
MainPicks(cat) == [n \in 1..Len(history[cat]) |-> history[cat][n].idx]
FollowupPicks(cat) == [n \in 1..Len(history[cat]) |-> history[cat][n].fu]

\* no element of 0..n-1 occurs twice in seq unless every other element
\* occurs in between
NoRepeatUntilAll(seq, n) ==
    \A i, j \in 1..Len(seq) :
        (i < j /\ seq[i] = seq[j]) =>
            (0..(n - 1)) \ {seq[i]} \subseteq {seq[k] : k \in (i + 1)..(j - 1)}

\* seq, cut into consecutive passes of n picks, repeats nothing within a pass
DistinctWithinPasses(seq, n) ==
    \A i, j \in 1..Len(seq) :
        (i < j /\ (i - 1) \div n = (j - 1) \div n) => seq[i] # seq[j]

\* every string the self-care suggestion template can produce
SuggestionTexts ==
    UNION {{SuggestionHead \o self_care_recs[tag][n] \o SuggestionTail :
               n \in 1..Len(self_care_recs[tag])} : tag \in DOMAIN self_care_recs}

\* C1: a non-empty message that matches the crisis pattern gets category
\* crisis, the one crisis reply and matched_terms "crisis", whatever else it
\* matches and whether or not it asks for advice.
C1_CrisisOverride ==
    (InCall /\ Facts.text # "" /\ Facts.crisis) =>
        /\ Len(responses["crisis"]) = 1
        /\ result.category = "crisis"
        /\ result.text = responses["crisis"][1]
        /\ result.matched_terms = "crisis"

\* a crisis message that also hits a category and asks for advice was answered
C1_Witness ==
    /\ InCall
    /\ Facts.crisis /\ Facts.help /\ Facts.hits # {}
    /\ result.category = "crisis"

\* C2: an empty or whitespace-only message gets category default, the fixed
\* invitation (which is no reply of the default bank) and empty matched_terms.
C2_EmptyInput ==
    (InCall /\ Strip(message) = "") =>
        /\ result.category = "default"
        /\ result.text = InvitationReply
        /\ result.matched_terms = ""
        /\ \A n \in 1..Len(responses["default"]) :
              responses["default"][n] # InvitationReply

\* a whitespace-only message was answered by a bot that had served calls before
C2_Witness ==
    /\ InCall
    /\ message # "" /\ Strip(message) = ""
    /\ calls = 2 /\ used_indexes # <<>>
    /\ result.text = InvitationReply

\* C3: every call returns a Result with one of the 13 categories and a
\* non-empty reply, never an error, also when the indexes of the category
\* were all used before the call.
C3_Total ==
    InCall =>
        /\ result # Raised
        /\ result.category \in Categories
        /\ Cardinality(Categories) = 13
        /\ Len(result.text) > 0

\* a call for a category whose only reply had been used already
C3_Witness ==
    /\ InCall
    /\ result.category = "crisis"
    /\ Len(history["crisis"]) = 2
    /\ Len(result.text) > 0

\* C4: for a plain input the category is the hit that comes first in the
\* priority order, and default exactly when nothing was hit; every category
\* with a pattern is in the priority order.
C4_PriorityResolution ==
    (InCall /\ PlainInput) =>
        /\ DOMAIN patterns \subseteq Categories
        /\ (result.category = "default") <=> (Facts.hits = {})
        /\ Facts.hits # {} =>
              /\ result.category \in Facts.hits
              /\ \A hit \in Facts.hits : Rank(result.category) <= Rank(hit)
        /\ message = "I feel sad about our anniversary" =>
              result.category = "anniversary"

\* the example of the specification: feeling_bad and anniversary both hit
C4_Witness ==
    /\ InCall
    /\ message = "I feel sad about our anniversary"
    /\ Facts.hits = {"feeling_bad", "anniversary"}
    /\ result.category = "anniversary"

\* C5: a non-empty message without crisis content that asks for advice gets
\* category self_care, matched_terms "self_care(help)" and a reply of the
\* suggestion template, whatever was hit; a crisis message never does.
C5_AdviceOverride ==
    /\ (InCall /\ Facts.text # "" /\ ~Facts.crisis /\ Facts.help) =>
          /\ result.category = "self_care"
          /\ result.matched_terms = "self_care(help)"
          /\ result.text \in SuggestionTexts
    /\ (InCall /\ Facts.crisis) =>
          /\ result.matched_terms # "self_care(help)"
          /\ result.text \notin SuggestionTexts

\* an advice request that also hits the higher-priority anniversary
C5_Witness ==
    /\ InCall
    /\ message = "what should I do about the anniversary"
    /\ "anniversary" \in Facts.hits
    /\ result.category = "self_care"

\* C6 as stated: in both modes no reply of a category is returned again
\* before every other reply of its bank has been returned in between.
C6_NoRepeatUntilAllShown ==
    \A cat \in Categories :
        NoRepeatUntilAll(MainPicks(cat), Len(responses[cat]))

\* C6 amended: the picks of one pass over a bank (between two resets of the
\* used set) are pairwise distinct; in deterministic mode no reply comes
\* again before every other one has been returned.
C6_NoRepeatWithinPass ==
    \A cat \in Categories :
        /\ DistinctWithinPasses(MainPicks(cat), Len(responses[cat]))
        /\ deterministic =>
              NoRepeatUntilAll(MainPicks(cat), Len(responses[cat]))

\* random mode: the pick after the reset repeats the reply returned just before
C6_Witness ==
    /\ ~deterministic
    /\ Len(history["greeting"]) = 4
    /\ history["greeting"][4].idx = history["greeting"][3].idx

\* C7: in deterministic mode the calls resolved to one category return its
\* replies in the order 0, 1, ..., n-1, 0, ..., whatever calls for other
\* categories come in between; repeated "hi" walks the greeting bank.
C7_DeterministicOrder ==
    deterministic =>
        /\ \A cat \in Categories : \A n \in 1..Len(history[cat]) :
              history[cat][n].idx = (n - 1) % Len(responses[cat])
        /\ (InCall /\ message = "hi") =>
              result.text =
                  responses["greeting"][((Len(history["greeting"]) - 1) % 3) + 1]

\* the fourth "hi" got the first greeting again, with a guilt call in between
C7_Witness ==
    /\ deterministic
    /\ InCall /\ message = "hi"
    /\ Len(history["greeting"]) = 4
    /\ Len(history["guilt"]) = 1
    /\ result.text = responses["greeting"][1]

\* the category and matched_terms that the text alone determines
ClassOfText(f) ==
    IF f.text = "" THEN <<"default", "">>
    ELSE IF f.crisis THEN <<"crisis", "crisis">>
    ELSE IF f.help THEN <<"self_care", "self_care(help)">>
    ELSE IF f.hits = {} THEN <<"default", "">>
    ELSE <<CHOOSE cat \in f.hits : \A hit \in f.hits : Rank(cat) <= Rank(hit),
           join(sorted(f.hits))>>

ClassOf == [msg \in Messages |-> ClassOfText(Scanned[msg])]

\* C8: category and matched_terms of a Result are a function of the text
\* alone: whatever calls were made before, a text gets the same ones.
C8_ClassificationIgnoresHistory ==
    InCall => <<result.category, result.matched_terms>> = ClassOf[message]

\* a call served from a used state: its category had been served before
C8_Witness ==
    /\ InCall
    /\ calls = 2
    /\ PlainInput
    /\ Len(history[result.category]) = 2

\* C9: for a plain input matched_terms lists exactly the hit categories,
\* comma-joined in increasing lexicographic order; it is empty iff the
\* category is default, holds the category otherwise, never crisis or default.
C9_MatchedTerms ==
    (InCall /\ PlainInput) =>
        LET terms == Terms(result.matched_terms)
            listed == {terms[n] : n \in 1..Len(terms)}
        IN /\ listed = Facts.hits
           /\ \A n \in 1..(Len(terms) - 1) : StrLess(terms[n], terms[n + 1])
           /\ (result.matched_terms = "") <=> (result.category = "default")
           /\ result.category # "default" => result.category \in listed
           /\ "crisis" \notin listed /\ "default" \notin listed

\* two hits whose lexicographic order is not their priority order
C9_Witness ==
    /\ InCall
    /\ message = "I feel exhausted and can't sleep"
    /\ result.category = "sleep_issues"
    /\ result.matched_terms = "feeling_bad,sleep_issues"

\* the reply of the call is main reply idx of its category, then follow-up fu
ReplyIs(cat, idx, fu) ==
    result.text =
        IF fu = -1 THEN responses[cat][idx + 1]
        ELSE responses[cat][idx + 1] \o " " \o followups[cat][fu + 1]

\* the last entry of the history of the category of the call
LastPick == history[result.category][Len(history[result.category])]

\* C10 as stated: the follow-up obeys the non-repeating rule of the main
\* reply (lowest unused index in deterministic mode), is space-joined after
\* the main reply and is left out exactly for categories without follow-ups.
C10_FollowupNonRepeating ==
    /\ \A cat \in DOMAIN followups :
          /\ NoRepeatUntilAll(FollowupPicks(cat), Len(followups[cat]))
          /\ deterministic =>
                \A n \in 1..Len(history[cat]) :
                    history[cat][n].fu = (n - 1) % Len(followups[cat])
    /\ (InCall /\ PlainInput) =>
          /\ ReplyIs(result.category, LastPick.idx, LastPick.fu)
          /\ (LastPick.fu = -1) <=> (result.category \notin DOMAIN followups)

\* C10 amended: the follow-up is chosen without usage tracking, the first one
\* of the bank in deterministic mode and any one in random mode; it is
\* space-joined after the main reply and is left out exactly for categories
\* without follow-ups.
C10_FollowupRule ==
    /\ \A cat \in Categories : \A n \in 1..Len(history[cat]) :
          IF cat \in DOMAIN followups
          THEN /\ history[cat][n].fu \in 0..(Len(followups[cat]) - 1)
               /\ deterministic => history[cat][n].fu = 0
          ELSE history[cat][n].fu = -1
    /\ (InCall /\ PlainInput) =>
          /\ ReplyIs(result.category, LastPick.idx, LastPick.fu)
          /\ (LastPick.fu = -1) <=> (result.category \notin DOMAIN followups)

\* deterministic mode: the same follow-up was appended twice in a row
C10_Witness ==
    /\ deterministic
    /\ InCall /\ PlainInput
    /\ result.category = "guilt"
    /\ Len(history["guilt"]) = 2
    /\ history["guilt"][1].fu = 0 /\ history["guilt"][2].fu = 0
    /\ ReplyIs("guilt", 1, 0)

\* the cue groups that match the text of each message
CueTags ==
    [msg \in Messages |->
        {self_care_cues[n].tag :
            n \in {k \in 1..Len(self_care_cues) :
                      Search(self_care_cues[k].pat, Strip(msg))}}]

\* the suggestion texts of one tag
TagTexts(tag) ==
    {SuggestionHead \o self_care_recs[tag][n] \o SuggestionTail :
        n \in 1..Len(self_care_recs[tag])}

\* C11: the suggestion of an advice reply comes from the list of the first
\* cue group, in the order physical, social, spiritual, practical, that the
\* text matches, and from emotional when none matches; in deterministic mode
\* it is the first entry of that list.
C11_SelfCareTagOrder ==
    (InCall /\ Facts.text # "" /\ ~Facts.crisis /\ Facts.help) =>
        LET cues == CueTags[message]
            tag == IF "physical" \in cues THEN "physical"
                   ELSE IF "social" \in cues THEN "social"
                   ELSE IF "spiritual" \in cues THEN "spiritual"
                   ELSE IF "practical" \in cues THEN "practical"
                   ELSE "emotional"
        IN /\ result.text \in TagTexts(tag)
           /\ \A other \in DOMAIN self_care_recs \ {tag} :
                 result.text \notin TagTexts(other)
           /\ deterministic =>
                 result.text =
                     SuggestionHead \o self_care_recs[tag][1] \o SuggestionTail

\* a text with a physical cue (tired) and a social cue (friend) got the first
\* physical suggestion
C11_Witness ==
    /\ InCall /\ deterministic
    /\ message = "I am tired, my friend, any advice"
    /\ CueTags[message] = {"physical", "social"}
    /\ result.text = SuggestionHead \o self_care_recs["physical"][1] \o SuggestionTail

\* the valid indexes of the reply bank of a category
BankIndexes(cat) == 0..(Len(responses[cat]) - 1)

\* the step is a _choose for the category
ChooseStep(cat) == history'[cat] # history[cat]

\* the step takes an index out of the used set of the category
ClearStep(cat) ==
    /\ cat \in DOMAIN used_indexes
    /\ ~(used_indexes[cat] \subseteq used_of(cat)')

\* C12: every used set holds valid indexes of its bank only; a used set is
\* cleared only by _choose and only when it holds every index of the bank;
\* right after a _choose the set holds the index just returned.
C12_UsageState ==
    [][/\ DOMAIN used_indexes \subseteq DOMAIN used_indexes'
       /\ \A cat \in DOMAIN used_indexes' :
             /\ cat \in Categories
             /\ used_indexes'[cat] \subseteq BankIndexes(cat)
             /\ ClearStep(cat) =>
                   ChooseStep(cat) /\ used_indexes[cat] = BankIndexes(cat)
       /\ \A cat \in Categories :
             ChooseStep(cat) =>
                /\ cat \in DOMAIN used_indexes'
                /\ used_indexes'[cat] # {}
                /\ history'[cat][Len(history'[cat])].idx \in used_indexes'[cat]
      ]_vars

\* the greeting set was full, the fourth pick cleared it and left its index
C12_Witness ==
    /\ Len(history["greeting"]) = 4
    /\ {history["greeting"][n].idx : n \in 1..3} = BankIndexes("greeting")
    /\ used_indexes["greeting"] = {history["greeting"][4].idx}

\* the entry of a category is the same before and after the step
SameEntry(cat) ==
    /\ (cat \in DOMAIN used_indexes) <=> (cat \in DOMAIN used_indexes')
    /\ cat \in DOMAIN used_indexes => used_indexes'[cat] = used_indexes[cat]

\* C15: a call with an empty message or with an advice request (no crisis)
\* leaves every used set as it was; a crisis call changes the crisis entry
\* only; any other call changes the entry of the returned category only, by
\* the main index it returns and not by the follow-up; delivering a Result
\* changes nothing.
C15_Frame ==
    [][LET f == Scanned[message']
           last == history'[result'.category][Len(history'[result'.category])]
       IN IF calls' = calls
          THEN used_indexes' = used_indexes
          ELSE IF f.text = "" \/ (~f.crisis /\ f.help)
          THEN used_indexes' = used_indexes /\ history' = history
          ELSE /\ f.crisis => result'.category = "crisis"
               /\ \A cat \in Categories \ {result'.category} : SameEntry(cat)
               /\ DOMAIN used_indexes' \subseteq Categories
               /\ used_indexes'[result'.category] \in
                     {used_of(result'.category) \cup {last.idx}, {last.idx}}
      ]_vars

\* an advice call that resolved to anniversary left no anniversary entry
C15_Witness ==
    /\ InCall
    /\ message = "what should I do about the anniversary"
    /\ resolve(Facts.hits) = "anniversary"
    /\ calls = 2
    /\ used_indexes # <<>>
    /\ "anniversary" \notin DOMAIN used_indexes

\* a call has read its candidates (182) and has not yet marked its pick (187)
BetweenReadAndMark(c) == pc[c] \in {"reset", "pick", "add"}

\* C13: the read-candidates / reset / pick / mark-consumed steps of two calls
\* of _choose for one category never interleave, and two calls in progress
\* for one category never hold the same index picked out of the same
\* candidate set.
C13_Serialized ==
    \A c1, c2 \in Clients :
        (c1 # c2 /\ local[c1].category = local[c2].category) =>
            /\ ~(BetweenReadAndMark(c1) /\ BetweenReadAndMark(c2))
            /\ ~(/\ pc[c1] \in {"add", "return"}
                 /\ pc[c2] \in {"add", "return"}
                 /\ local[c1].choices = local[c2].choices
                 /\ local[c1].idx = local[c2].idx)

\* C14: whatever the other session sends in between, the main replies one
\* session receives for a category are those a bot of its own would give it:
\* within each pass over the bank it is never given the same reply twice.
C14_SessionIsolation ==
    \A c \in Clients : \A cat \in Categories :
        DistinctWithinPasses(received[c][cat], Len(responses[cat]))

====
